---- MODULE Spec2Model ----
(***************************************************************************)
(* Model of the AI social media agent pipeline: SocialMediaAgent           *)
(* (backend/app.py) orchestrating BrandAnalyzer, PostGenerator,            *)
(* FeedbackLoop and ImageGenerator.  Python dicts are functions with       *)
(* string domains; the answers of the text and image services are inputs   *)
(* drawn from small sets.  One session, one thread of control: pc is the   *)
(* position inside the operation in progress ("idle" between operations).  *)
(*                                                                         *)
(* The caller is the front end reduced to what feeds the agent: it selects *)
(* a post from the list generate_post just returned, refines the selected  *)
(* post any number of times, and clears the selection ("Generate New       *)
(* Post") before it asks for a new generation.  Every post an operation    *)
(* can return can thus be passed to refine_post, under every profile.      *)
(* Dicts are held by value: iterate copies its argument and no operation   *)
(* writes to a record it was handed, so no alias is ever written through   *)
(* except improved_posts[idx], which AddTextOverlay updates in place.      *)
(***************************************************************************)
EXTENDS Integers, Sequences, FiniteSets, TLC

VARIABLES
    brand_profile,    \* SocialMediaAgent.brand_profile
    pc,               \* position of the single thread of control
    platform,         \* generate_post argument
    intent,           \* generate_post argument
    initial_posts,    \* generate_post local: list from generate_variations
    improved_posts,   \* generate_post local
    final_posts,      \* generate_post local
    idx,              \* generate_post loop index (0-based)
    i,                \* FeedbackLoop.iterate round index (0-based)
    current_post,     \* FeedbackLoop.iterate local
    critique,         \* FeedbackLoop.iterate local
    post_data,        \* refine_post argument
    refined_post,     \* refine_post local
    image_path,       \* local: handle returned by generate_background
    calls,            \* calls issued by the operation in progress / last run
    ret,              \* outcome of the last finished operation
    selected_post,    \* caller's st.session_state.selected_post
    selected_created, \* history: request that produced selected_post
    rounds,           \* history: the rounds FeedbackLoop.iterate has run on
                      \* the post in hand (critique answer kind, its overall
                      \* score, improve answer kind, post after the round)
    stamps,           \* names (prefix and timestamp) of the image files
                      \* written so far by the operation in progress; after
                      \* save_post, of the files it wrote
    ui_brand_profile, \* caller's st.session_state.brand_profile
    current_shared,   \* current_post is the very object iterate was passed
    shared            \* positions j where improved_posts[j] and
                      \* initial_posts[j] are one and the same object

vars == <<brand_profile, pc, platform, intent, initial_posts, improved_posts,
          final_posts, idx, i, current_post, critique, post_data,
          refined_post, image_path, calls, ret, selected_post,
          selected_created, rounds, stamps, ui_brand_profile, current_shared,
          shared>>

(***************************************************************************)
(* Bounds and program constants                                            *)
(***************************************************************************)
MaxPosts == 2          \* longest "posts" array the text service answers with

NumVariations == 3     \* num_variations=3 passed by generate_post
Iterations == 2        \* iterations=2 passed by generate_post

(***************************************************************************)
(* Python values                                                           *)
(***************************************************************************)
EmptyDict == [x \in {} |-> ""]

\* a tagged value: k is the Python type, v the content
None == [k |-> "None", v |-> EmptyDict]
Dict(f) == [k |-> "dict", v |-> f]
List(s) == [k |-> "list", v |-> s]
StrVal == [k |-> "str", v |-> EmptyDict]

\* bool(x) for a tagged value
Truthy(x) == x.k # "None" /\ DOMAIN x.v # {}

\* dict.get(key, default) and d[key] = val on a dict held as a function
Get(d, key, dflt) == IF key \in DOMAIN d THEN d[key] ELSE dflt
Put(d, key, val) == [x \in DOMAIN d \cup {key} |-> IF x = key THEN val ELSE d[x]]

\* the outcome of a call: exc = "none" for a normal return
Ok(val) == [exc |-> "none", val |-> val]
Raise(e) == [exc |-> e, val |-> None]

NoPost == EmptyDict
NoPath == [stage |-> "None", size |-> ""]
NoArgs == EmptyDict
NoRequest == [platform |-> "None", intent |-> "None"]

\* the record of a finished operation: how it ended, what it returned, the
\* arguments it was called with and the kind of the (last) text answer
Returned(op, val, args, resp) ==
    [op |-> op, status |-> "return", exc |-> "none", val |-> val,
     args |-> args, resp |-> resp]
Raised(op, exc, args, resp) ==
    [op |-> op, status |-> "raise", exc |-> exc, val |-> None,
     args |-> args, resp |-> resp]

Running(op, args, resp) ==
    [op |-> op, status |-> "running", exc |-> "none", val |-> None,
     args |-> args, resp |-> resp]

Call(api, stage, var) == [api |-> api, stage |-> stage, var |-> var]

(***************************************************************************)
(* Answers of the text service.  k = "error": the request raised;          *)
(* k = "unparseable": the body is not JSON; otherwise the parsed value.    *)
(***************************************************************************)
RespError == [k |-> "error", v |-> EmptyDict]
RespUnparseable == [k |-> "unparseable", v |-> EmptyDict]

\* json.loads of the response body (fenced or raw)
json_loads(resp) ==
    IF resp.k \in {"error", "unparseable"} THEN Raise("Exception") ELSE Ok(resp)

(***************************************************************************)
(* BrandAnalyzer                                                           *)
(***************************************************************************)
Groups == {"brand_voice", "visual_identity", "messaging_patterns",
           "cta_style", "content_structure"}

\* a group's content: "default" the fallback's, "model" a well-formed answer,
\* "partial" an object without the keys the later stages index
_default_brand_profile == Dict([g \in Groups |-> "default"])

ModelProfiles ==
    { Dict([g \in Groups |-> "model"]),
      Dict([g \in Groups \ {"brand_voice"} |-> "model"]),
      Dict([g \in Groups \ {"visual_identity"} |-> "model"]),
      Dict([g \in Groups |-> IF g = "brand_voice" THEN "partial" ELSE "model"]),
      Dict(EmptyDict),
      List(<<>>),
      List(<<"text">>) }

AnalyzeResponses == {RespError, RespUnparseable} \cup ModelProfiles

WebsiteUrls == {"None", "https://example.com"}
ScrapeOutcomes == {"", "site text"}
ExistingPostsInputs == {<<>>, <<"post one", "post two">>}
GuidelinesInputs == {"None", "guidelines"}

\* scrape_website: the page text, or "" when the fetch raised
scrape_website(url, scrape) == scrape

\* the three source sections of the analysis prompt
analysis_prompt(website_url, existing_posts, brand_guidelines, scrape) ==
    LET website_content == IF website_url # "None"
                           THEN scrape_website(website_url, scrape) ELSE ""
        posts_text == IF existing_posts # <<>> THEN "posts" ELSE ""
        guidelines_text == IF brand_guidelines # "None" THEN "guidelines" ELSE ""
    IN  [website |-> IF website_content # "" THEN website_content ELSE "Not provided",
         posts |-> IF posts_text # "" THEN posts_text ELSE "Not provided",
         guidelines |-> IF guidelines_text # "" THEN guidelines_text ELSE "Not provided"]

\* analyze with an empty object in place of the fallback profile
analyze_NoFallback(website_url, existing_posts, brand_guidelines, scrape, resp) ==
    LET parsed == json_loads(resp)
    IN  IF parsed.exc # "none" THEN Dict(EmptyDict) ELSE parsed.val

\* analyze answering with the fallback profile, without a request, when no
\* source is given
analyze_ShortCircuit(website_url, existing_posts, brand_guidelines, scrape, resp) ==
    LET parsed == json_loads(resp)
    IN  IF website_url = "None" /\ existing_posts = <<>> /\ brand_guidelines = "None"
        THEN _default_brand_profile
        ELSE IF parsed.exc # "none" THEN _default_brand_profile ELSE parsed.val

\* BrandAnalyzer.analyze: one completion call, parsed value returned as is
analyze(website_url, existing_posts, brand_guidelines, scrape, resp) ==
    LET parsed == json_loads(resp)
    IN  IF parsed.exc # "none" THEN _default_brand_profile ELSE parsed.val

(***************************************************************************)
(* PostGenerator                                                           *)
(***************************************************************************)
ContentKeys == {"caption", "overlay_text", "hashtags", "cta", "hook",
                "image_description"}

\* a content payload whose fields all carry the text x, plus the summary key
Full(x, summary) == [f \in ContentKeys \cup {summary} |-> x]

\* the same payload when the model also supplies metadata keys of its own
WithMeta(d) ==
    Put(Put(Put(d, "platform", "tiktok"), "intent", "model intent"),
        "variation_number", 9)

Platforms == {"linkedin", "instagram"}
Intents == {"Announce launch"}

\* entries of the "posts" array of a generation answer
PostEntries ==
    { Dict(Full("a", "reasoning")),
      Dict(WithMeta(Full("a", "reasoning"))),
      StrVal }

RECURSIVE SeqsUpTo(_, _)
SeqsUpTo(S, n) ==
    IF n = 0 THEN {<<>>}
    ELSE LET shorter == SeqsUpTo(S, n - 1)
         IN  shorter \cup {Append(s, e) : s \in {t \in shorter : Len(t) = n - 1}, e \in S}

GenerationResponses ==
    {RespError, RespUnparseable, List(<<>>), Dict([message |-> "no posts"])}
    \cup {Dict([posts |-> s]) : s \in SeqsUpTo(PostEntries, MaxPosts)}

\* _build_generation_prompt: indexes the profile outside any try block
_build_generation_prompt(bp) ==
    IF bp.k # "dict" THEN Raise("TypeError")
    ELSE IF "brand_voice" \notin DOMAIN bp.v THEN Raise("KeyError")
    ELSE IF bp.v["brand_voice"] = "partial" THEN Raise("KeyError")
    ELSE IF "cta_style" \notin DOMAIN bp.v THEN Raise("KeyError")
    ELSE IF bp.v["cta_style"] = "partial" THEN Raise("KeyError")
    ELSE IF "messaging_patterns" \notin DOMAIN bp.v THEN Raise("KeyError")
    ELSE Ok(Dict(EmptyDict))

\* attach_metadata keeping the keys the model supplied (setdefault)
attach_metadata_KeepModel(posts, p, it) ==
    [j \in 1..Len(posts) |->
        Put(Put(Put(posts[j].v, "platform", Get(posts[j].v, "platform", p)),
                "intent", Get(posts[j].v, "intent", it)),
            "variation_number", Get(posts[j].v, "variation_number", j))]

\* the loop of generate_variations, lines 80-86: metadata on every entry
attach_metadata(posts, p, it) ==
    [j \in 1..Len(posts) |->
        Put(Put(Put(posts[j].v, "platform", p), "intent", it),
            "variation_number", j)]

\* generate_variations without its except clause (lines 88-90)
generate_variations_NoFallback(bp, it, p, num_variations, resp) ==
    LET prompt == _build_generation_prompt(bp)
        parsed == json_loads(resp)
    IN  IF prompt.exc # "none" THEN prompt
        ELSE IF parsed.exc # "none" THEN Raise(parsed.exc)
        ELSE IF parsed.val.k # "dict" THEN Raise("TypeError")
        ELSE IF "posts" \notin DOMAIN parsed.val.v THEN Raise("KeyError")
        ELSE IF \E j \in 1..Len(parsed.val.v["posts"]) :
                    parsed.val.v["posts"][j].k # "dict" THEN Raise("TypeError")
        ELSE Ok(attach_metadata(parsed.val.v["posts"], p, it))

\* generate_variations: the "posts" array with metadata attached, or the
\* empty list when anything in the try block raised
generate_variations(bp, it, p, num_variations, resp) ==
    LET prompt == _build_generation_prompt(bp)
        parsed == json_loads(resp)
    IN  IF prompt.exc # "none" THEN prompt
        ELSE IF parsed.exc # "none" THEN Ok(<<>>)
        ELSE IF parsed.val.k # "dict" THEN Ok(<<>>)
        ELSE IF "posts" \notin DOMAIN parsed.val.v THEN Ok(<<>>)
        ELSE IF \E j \in 1..Len(parsed.val.v["posts"]) :
                    parsed.val.v["posts"][j].k # "dict" THEN Ok(<<>>)
        ELSE Ok(attach_metadata(parsed.val.v["posts"], p, it))

RefineResponses ==
    { RespError, RespUnparseable, List(<<>>),
      Dict(Full("a", "changes_made")),
      Dict(WithMeta(Full("r", "changes_made"))),
      Dict([overlay_text |-> "r"]) }

\* refine_with_feedback trusting the reply's own platform and intent
refine_with_feedback_TrustModel(post, user_feedback, bp, resp) ==
    LET parsed == json_loads(resp)
    IN  IF parsed.exc # "none" THEN post
        ELSE IF parsed.val.k # "dict" THEN post
        ELSE parsed.val.v

\* refine_with_feedback answering a failure with a record of metadata only
refine_with_feedback_FailDrops(post, user_feedback, bp, resp) ==
    LET parsed == json_loads(resp)
    IN  IF parsed.exc # "none" \/ parsed.val.k # "dict"
        THEN [platform |-> Get(post, "platform", "None"),
              intent |-> Get(post, "intent", "None")]
        ELSE Put(Put(parsed.val.v, "platform", Get(post, "platform", "None")),
                 "intent", Get(post, "intent", "None"))

\* refine_with_feedback: the reply with platform and intent re-attached, or
\* the argument itself when anything in the try block raised
refine_with_feedback(post, user_feedback, bp, resp) ==
    LET parsed == json_loads(resp)
    IN  IF parsed.exc # "none" THEN post
        ELSE IF parsed.val.k # "dict" THEN post
        ELSE Put(Put(parsed.val.v, "platform", Get(post, "platform", "None")),
                 "intent", Get(post, "intent", "None"))

(***************************************************************************)
(* FeedbackLoop                                                            *)
(***************************************************************************)
Dimensions == {"brand_consistency", "message_clarity", "cta_effectiveness",
               "text_readability", "platform_appropriateness",
               "engagement_potential"}

_default_critique ==
    Dict([scores |-> [d \in Dimensions |-> 7],
          overall_score |-> "7.0",
          strengths |-> <<"Clear message">>,
          weaknesses |-> <<"Could be more engaging">>,
          specific_improvements |-> <<"Enhance the hook", "Strengthen the CTA">>,
          priority_fix |-> "Make the opening more attention-grabbing"])

ModelCritique ==
    [scores |-> [d \in Dimensions |-> 8],
     overall_score |-> "8.5",
     strengths |-> <<"s">>,
     weaknesses |-> <<"w">>,
     specific_improvements |-> <<"x">>,
     priority_fix |-> "fix"]

\* "NonStr" stands for a list element that is not a string
CritiqueResponses ==
    { RespError, RespUnparseable,
      Dict(ModelCritique),
      Dict([ModelCritique EXCEPT !.weaknesses = <<"NonStr">>]),
      List(<<>>) }

ImproveResponses ==
    { RespError, RespUnparseable, List(<<>>),
      Dict(WithMeta(Full("b", "improvements_made"))),
      Dict([caption |-> "b"]) }

\* critique.get('overall_score') as _improve_post reads it (lines 177, 229)
overall_score(crit) ==
    IF crit.k = "dict" THEN Get(crit.v, "overall_score", "None") ELSE "None"

\* _critique_post: the parsed reply whatever its shape, else the default
_critique_post(post, bp, p, resp) ==
    LET parsed == json_loads(resp)
    IN  IF parsed.exc # "none" THEN _default_critique ELSE parsed.val

\* the answers on which _improve_post's try block raises
ImproveFailed(kind) == kind \in {"error", "unparseable", "list"}

\* the improvement prompt is built outside the try block
improvement_prompt(post, crit) ==
    IF crit.k # "dict" THEN Raise("AttributeError")
    ELSE IF \E n \in 1..Len(Get(crit.v, "weaknesses", <<>>)) :
                Get(crit.v, "weaknesses", <<>>)[n] = "NonStr" THEN Raise("TypeError")
    ELSE Ok(Dict(EmptyDict))

\* _improve_post without lines 226-227 (platform and intent not re-attached)
_improve_post_DropMeta(post, crit, bp, p, resp) ==
    LET prompt == improvement_prompt(post, crit)
        parsed == json_loads(resp)
    IN  IF prompt.exc # "none" THEN prompt
        ELSE IF parsed.exc # "none" THEN Ok(post)
        ELSE IF parsed.val.k # "dict" THEN Ok(post)
        ELSE Ok(Put(Put(parsed.val.v,
                    "variation_number", Get(post, "variation_number", 0)),
                    "critique_score", Get(crit.v, "overall_score", "None")))

\* _improve_post whose except clause answers with the metadata only
_improve_post_FailClears(post, crit, bp, p, resp) ==
    LET prompt == improvement_prompt(post, crit)
        parsed == json_loads(resp)
        cleared == [platform |-> Get(post, "platform", "None"),
                    intent |-> Get(post, "intent", "None"),
                    variation_number |-> Get(post, "variation_number", 0)]
    IN  IF prompt.exc # "none" THEN prompt
        ELSE IF parsed.exc # "none" THEN Ok(cleared)
        ELSE IF parsed.val.k # "dict" THEN Ok(cleared)
        ELSE Ok(Put(Put(Put(Put(parsed.val.v,
                    "platform", Get(post, "platform", "None")),
                    "intent", Get(post, "intent", "None")),
                    "variation_number", Get(post, "variation_number", 0)),
                    "critique_score", Get(crit.v, "overall_score", "None")))

\* _improve_post without line 228 (variation_number not re-attached)
_improve_post_NoRenumber(post, crit, bp, p, resp) ==
    LET prompt == improvement_prompt(post, crit)
        parsed == json_loads(resp)
    IN  IF prompt.exc # "none" THEN prompt
        ELSE IF parsed.exc # "none" THEN Ok(post)
        ELSE IF parsed.val.k # "dict" THEN Ok(post)
        ELSE Ok(Put(Put(Put(parsed.val.v,
                    "platform", Get(post, "platform", "None")),
                    "intent", Get(post, "intent", "None")),
                    "critique_score", Get(crit.v, "overall_score", "None")))

\* _improve_post stamping critique_score before the try block, so that a
\* failed improve answers with the post re-scored
_improve_post_FailStamps(post, crit, bp, p, resp) ==
    LET prompt == improvement_prompt(post, crit)
        parsed == json_loads(resp)
        stamped == Put(post, "critique_score", Get(crit.v, "overall_score", "None"))
    IN  IF prompt.exc # "none" THEN prompt
        ELSE IF parsed.exc # "none" THEN Ok(stamped)
        ELSE IF parsed.val.k # "dict" THEN Ok(stamped)
        ELSE Ok(Put(Put(Put(Put(parsed.val.v,
                    "platform", Get(post, "platform", "None")),
                    "intent", Get(post, "intent", "None")),
                    "variation_number", Get(post, "variation_number", 0)),
                    "critique_score", Get(crit.v, "overall_score", "None")))

\* _improve_post keeping a critique_score the post already carries
\* (setdefault in place of the assignment of line 229)
_improve_post_KeepFirstScore(post, crit, bp, p, resp) ==
    LET prompt == improvement_prompt(post, crit)
        parsed == json_loads(resp)
    IN  IF prompt.exc # "none" THEN prompt
        ELSE IF parsed.exc # "none" THEN Ok(post)
        ELSE IF parsed.val.k # "dict" THEN Ok(post)
        ELSE Ok(Put(Put(Put(Put(parsed.val.v,
                    "platform", Get(post, "platform", "None")),
                    "intent", Get(post, "intent", "None")),
                    "variation_number", Get(post, "variation_number", 0)),
                    "critique_score",
                    Get(post, "critique_score",
                        Get(crit.v, "overall_score", "None"))))

\* _improve_post: the reply with the metadata re-attached, or the post itself
\* (every post in the loop has a variation_number; 0 stands for a missing one)
_improve_post(post, crit, bp, p, resp) ==
    LET prompt == improvement_prompt(post, crit)
        parsed == json_loads(resp)
    IN  IF prompt.exc # "none" THEN prompt
        ELSE IF parsed.exc # "none" THEN Ok(post)
        ELSE IF parsed.val.k # "dict" THEN Ok(post)
        ELSE Ok(Put(Put(Put(Put(parsed.val.v,
                    "platform", Get(post, "platform", "None")),
                    "intent", Get(post, "intent", "None")),
                    "variation_number", Get(post, "variation_number", 0)),
                    "critique_score", Get(crit.v, "overall_score", "None")))

(***************************************************************************)
(* ImageGenerator                                                          *)
(***************************************************************************)
ImageOutcomes == {"ok", "fail"}

_get_image_dimensions(p) ==
    IF p = "linkedin" THEN "1792x1024"
    ELSE IF p = "instagram" THEN "1024x1024"
    ELSE "1024x1024"

\* helper of this class whose body is not in the sources: maps colour codes
\* to colour names and returns normally
_hex_to_color_names(colors) == colors

\* helper of this class whose body is not in the sources: writes a plain
\* raster of the given dimensions and returns its handle
_create_placeholder_image(dimensions, bp) ==
    [stage |-> "placeholder", size |-> dimensions]

\* _build_dalle_prompt: indexes the profile outside any try block
_build_dalle_prompt(post, bp, p) ==
    IF bp.k # "dict" THEN Raise("TypeError")
    ELSE IF "visual_identity" \notin DOMAIN bp.v THEN Raise("KeyError")
    ELSE Ok(Dict([colors |-> _hex_to_color_names(bp.v["visual_identity"]),
                  theme |-> Get(post, "image_description",
                                "professional tech background")]))

\* generate_background without its except clause (lines 78-81)
generate_background_NoFallback(post, bp, p, img) ==
    LET dimensions == _get_image_dimensions(p)
        dalle_prompt == _build_dalle_prompt(post, bp, p)
    IN  IF dalle_prompt.exc # "none" THEN dalle_prompt
        ELSE IF img = "ok" THEN Ok([stage |-> "bg", size |-> dimensions])
        ELSE Raise("Exception")

\* generate_background: a new "bg" file of the platform's dimensions, or the
\* placeholder when synthesis, download or decoding raised
generate_background(post, bp, p, img) ==
    LET dimensions == _get_image_dimensions(p)
        dalle_prompt == _build_dalle_prompt(post, bp, p)
    IN  IF dalle_prompt.exc # "none" THEN dalle_prompt
        ELSE IF img = "ok" THEN Ok([stage |-> "bg", size |-> dimensions])
        ELSE Ok(_create_placeholder_image(dimensions, bp))

\* add_text_overlay whose except clause returns no handle (line 212)
add_text_overlay_DropsBackground(path, text, bp, render) ==
    IF render = "ok" THEN [stage |-> "final", size |-> path.size] ELSE NoPath

\* add_text_overlay: a new "final" file, or the handle it was given
add_text_overlay(path, text, bp, render) ==
    IF render = "ok" THEN [stage |-> "final", size |-> path.size] ELSE path

(***************************************************************************)
(* SocialMediaAgent and its caller                                         *)
(***************************************************************************)
Feedbacks == {"Make the caption shorter and more concise"}

\* post.copy() at feedback_loop.py:39 taken as plain assignment
post_copy_shares_NoCopy(post) == TRUE

\* post.copy(): whether the result is the object it was called on
post_copy_shares(post) == FALSE

\* datetime.now() to the second, counted from the operation's first file:
\* the clock has stayed in the second of the last file or has moved on
Now ==
    IF stamps = <<>> THEN {0}
    ELSE {stamps[Len(stamps)].ts, stamps[Len(stamps)].ts + 1}

\* the log of files once the file behind the handle path has been written
\* under the given timestamp (the placeholder's name is not in the sources)
Written(path, timestamp) ==
    IF path.stage \in {"bg", "final"}
    THEN Append(stamps, [prefix |-> path.stage, ts |-> timestamp])
    ELSE stamps

\* the locals of a finished operation are dead
ResetLocals ==
    /\ platform' = "None"
    /\ intent' = "None"
    /\ initial_posts' = <<>>
    /\ improved_posts' = <<>>
    /\ final_posts' = <<>>
    /\ idx' = 0
    /\ i' = 0
    /\ current_post' = NoPost
    /\ critique' = None
    /\ post_data' = NoPost
    /\ refined_post' = NoPost
    /\ image_path' = NoPath
    /\ rounds' = <<>>
    /\ current_shared' = FALSE
    /\ shared' = {}

Init ==
    /\ brand_profile = None
    /\ pc = "idle"
    /\ platform = "None"
    /\ intent = "None"
    /\ initial_posts = <<>>
    /\ improved_posts = <<>>
    /\ final_posts = <<>>
    /\ idx = 0
    /\ i = 0
    /\ current_post = NoPost
    /\ critique = None
    /\ post_data = NoPost
    /\ refined_post = NoPost
    /\ image_path = NoPath
    /\ calls = <<>>
    /\ ret = Returned("__init__", None, NoArgs, "none")
    /\ selected_post = NoPost
    /\ selected_created = NoRequest
    /\ rounds = <<>>
    /\ stamps = <<>>
    /\ ui_brand_profile = None
    /\ current_shared = FALSE
    /\ shared = {}

\* initialize_agent: a new SocialMediaAgent replaces the session's agent
InitializeAgent ==
    /\ pc = "idle"
    /\ brand_profile # None
    /\ brand_profile' = None
    /\ calls' = <<>>
    /\ ret' = Returned("__init__", None, NoArgs, "none")
    /\ stamps' = <<>>
    /\ UNCHANGED <<pc, platform, intent, initial_posts, improved_posts,
                   final_posts, idx, i, current_post, critique, post_data,
                   refined_post, image_path, selected_post,
                   selected_created, rounds, ui_brand_profile,
                   current_shared, shared>>

\* analyze_brand: stores whatever analyze returns
AnalyzeBrand ==
    /\ pc = "idle"
    /\ \E website_url \in WebsiteUrls, scrape \in ScrapeOutcomes,
          existing_posts \in ExistingPostsInputs,
          brand_guidelines \in GuidelinesInputs, resp \in AnalyzeResponses :
        /\ (website_url = "None" => scrape = "")
        /\ brand_profile' = analyze(website_url, existing_posts,
                                    brand_guidelines, scrape, resp)
        /\ calls' = <<Call("text", "analyze", 0)>>
        /\ ret' = Returned("analyze_brand", brand_profile',
                           [website_url |-> website_url,
                            existing_posts |-> existing_posts,
                            brand_guidelines |-> brand_guidelines,
                            prompt |-> analysis_prompt(website_url, existing_posts,
                                                       brand_guidelines, scrape)],
                           resp.k)
    /\ ui_brand_profile' = brand_profile'
    /\ stamps' = <<>>
    /\ UNCHANGED <<pc, platform, intent, initial_posts, improved_posts,
                   final_posts, idx, i, current_post, critique, post_data,
                   refined_post, image_path, selected_post,
                   selected_created, rounds, current_shared, shared>>

\* generate_post, lines 74-87: precondition, then generate_variations
GeneratePost ==
    /\ pc = "idle"
    /\ selected_post = NoPost
    /\ \E p \in Platforms, it \in Intents, resp \in GenerationResponses :
        LET args == [platform |-> p, intent |-> it]
            r == generate_variations(brand_profile, it, p, NumVariations, resp)
        IN  IF ~Truthy(brand_profile)
            THEN /\ ret' = Raised("generate_post", "ValueError", args, "none")
                 /\ calls' = <<>>
                 /\ ResetLocals
                 /\ UNCHANGED pc
            ELSE IF r.exc # "none"
            THEN /\ ret' = Raised("generate_post", r.exc, args,
                                  IF _build_generation_prompt(brand_profile).exc # "none"
                                  THEN "none" ELSE resp.k)
                 /\ calls' = <<>>
                 /\ ResetLocals
                 /\ UNCHANGED pc
            ELSE IF r.val = <<>>
            THEN /\ ret' = Returned("generate_post", <<>>, args, resp.k)
                 /\ calls' = <<Call("text", "generate", 0)>>
                 /\ ResetLocals
                 /\ UNCHANGED pc
            ELSE /\ calls' = <<Call("text", "generate", 0)>>
                 /\ platform' = p
                 /\ intent' = it
                 /\ initial_posts' = r.val
                 /\ improved_posts' = <<>>
                 /\ final_posts' = <<>>
                 /\ idx' = 0
                 /\ i' = 0
                 /\ current_post' = r.val[1]
                 /\ current_shared' = post_copy_shares(r.val[1])
                 /\ pc' = "critique"
                 /\ ret' = Running("generate_post", args, resp.k)
                 /\ UNCHANGED <<critique, post_data, refined_post, image_path,
                                rounds, shared>>
    /\ stamps' = <<>>
    /\ UNCHANGED <<brand_profile, selected_post, selected_created,
                   ui_brand_profile>>

\* FeedbackLoop.iterate, line 45
CritiquePost ==
    /\ pc = "critique"
    /\ \E resp \in CritiqueResponses :
        /\ critique' = _critique_post(current_post, brand_profile, platform, resp)
        /\ rounds' = Append(IF i = 0 THEN <<>> ELSE rounds,
                            [critique |-> resp.k,
                             overall_score |-> overall_score(critique'),
                             improve |-> "pending",
                             post |-> NoPost])
    /\ calls' = Append(calls, Call("text", "critique", idx + 1))
    /\ pc' = "improve"
    /\ UNCHANGED <<brand_profile, platform, intent, initial_posts,
                   improved_posts, final_posts, idx, i, current_post, post_data,
                   refined_post, image_path, ret, selected_post,
                   selected_created, stamps, ui_brand_profile, current_shared,
                   shared>>

\* FeedbackLoop.iterate, line 48, and the loop of generate_post, lines 91-101
ImprovePost ==
    /\ pc = "improve"
    /\ \E resp \in ImproveResponses :
        LET r == _improve_post(current_post, critique, brand_profile, platform, resp)
            args == [platform |-> platform, intent |-> intent]
            \* a parsed answer is a new object; on failure the argument comes back
            same == IF ImproveFailed(resp.k) THEN current_shared ELSE FALSE
        IN  IF r.exc # "none"
            THEN /\ ret' = Raised("generate_post", r.exc, args, ret.resp)
                 /\ pc' = "idle"
                 /\ ResetLocals
                 /\ UNCHANGED calls
            ELSE /\ calls' = Append(calls, Call("text", "improve", idx + 1))
                 /\ critique' = None
                 /\ rounds' = [rounds EXCEPT ![Len(rounds)] =
                                [@ EXCEPT !.improve = resp.k, !.post = r.val]]
                 /\ IF i + 1 < Iterations
                    THEN /\ i' = i + 1
                         /\ current_post' = r.val
                         /\ current_shared' = same
                         /\ pc' = "critique"
                         /\ UNCHANGED <<improved_posts, idx, shared>>
                    ELSE /\ improved_posts' = Append(improved_posts, r.val)
                         /\ shared' = IF same THEN shared \cup {idx + 1} ELSE shared
                         /\ i' = 0
                         /\ IF idx + 1 < Len(initial_posts)
                            THEN /\ idx' = idx + 1
                                 /\ current_post' = initial_posts[idx + 2]
                                 /\ current_shared' = post_copy_shares(initial_posts[idx + 2])
                                 /\ pc' = "critique"
                            ELSE /\ idx' = 0
                                 /\ current_post' = NoPost
                                 /\ current_shared' = FALSE
                                 /\ pc' = "background"
                 /\ UNCHANGED <<platform, intent, initial_posts, final_posts,
                                post_data, refined_post, image_path, ret>>
    /\ UNCHANGED <<brand_profile, selected_post, selected_created, stamps,
                   ui_brand_profile>>

\* generate_post, lines 109-113
GenerateBackground ==
    /\ pc = "background"
    /\ \E img \in ImageOutcomes :
        LET r == generate_background(improved_posts[idx + 1], brand_profile,
                                     platform, img)
            args == [platform |-> platform, intent |-> intent]
        IN  IF r.exc # "none"
            THEN /\ ret' = Raised("generate_post", r.exc, args, ret.resp)
                 /\ pc' = "idle"
                 /\ ResetLocals
                 /\ stamps' = <<>>
                 /\ UNCHANGED calls
            ELSE /\ image_path' = r.val
                 /\ calls' = Append(calls, Call("image", "background", idx + 1))
                 /\ pc' = "overlay"
                 /\ rounds' = <<>>
                 /\ \E timestamp \in Now : stamps' = Written(r.val, timestamp)
                 /\ UNCHANGED <<platform, intent, initial_posts, improved_posts,
                                final_posts, idx, i, current_post, critique,
                                post_data, refined_post, ret, current_shared,
                                shared>>
    /\ UNCHANGED <<brand_profile, selected_post, selected_created,
                   ui_brand_profile>>

\* generate_post, lines 116-126; the caller stores the returned list
AddTextOverlay ==
    /\ pc = "overlay"
    /\ \E render \in ImageOutcomes :
        LET post == improved_posts[idx + 1]
            final_image_path == add_text_overlay(image_path,
                                    Get(post, "overlay_text", ""),
                                    brand_profile, render)
            done == Put(post, "image_path", final_image_path)
            args == [platform |-> platform, intent |-> intent]
        IN  /\ IF idx + 1 < Len(improved_posts)
               THEN /\ \E timestamp \in Now :
                        stamps' = IF final_image_path = image_path THEN stamps
                                  ELSE Written(final_image_path, timestamp)
                    /\ improved_posts' = [improved_posts EXCEPT ![idx + 1] = done]
                    \* line 119 writes to the object, whoever else holds it
                    /\ initial_posts' = IF idx + 1 \in shared
                                        THEN [initial_posts EXCEPT ![idx + 1] = done]
                                        ELSE initial_posts
                    /\ final_posts' = Append(final_posts, done)
                    /\ idx' = idx + 1
                    /\ image_path' = NoPath
                    /\ pc' = "background"
                    /\ calls' = Append(calls, Call("local", "overlay", idx + 1))
                    /\ UNCHANGED <<platform, intent, i, current_post, critique,
                                   post_data, refined_post, ret, rounds,
                                   current_shared, shared>>
               ELSE /\ ret' = Returned("generate_post", Append(final_posts, done),
                                       args, ret.resp)
                    /\ calls' = Append(calls, Call("local", "overlay", idx + 1))
                    /\ stamps' = <<>>
                    /\ pc' = "idle"
                    /\ ResetLocals
    /\ UNCHANGED <<brand_profile, selected_post, selected_created,
                   ui_brand_profile>>

\* the caption test of refine_post taken as always false
caption_changed_Never(refined, post) == FALSE

\* the caption test of refine_post taken as always true
caption_changed_Always(refined, post) == TRUE

\* refine_post, line 149: refined_post.get('caption') != post_data.get('caption')
caption_changed(refined, post) ==
    Get(refined, "caption", "None") # Get(post, "caption", "None")

\* the caller's "Select Variation" button, on the list just returned
SelectPost ==
    /\ pc = "idle"
    /\ ret.op = "generate_post"
    /\ ret.status = "return"
    /\ \E j \in 1..Len(ret.val) :
        /\ selected_post' = ret.val[j]
        /\ selected_post' # selected_post
    /\ selected_created' = ret.args
    /\ stamps' = <<>>
    /\ UNCHANGED <<brand_profile, pc, platform, intent, initial_posts,
                   improved_posts, final_posts, idx, i, current_post, critique,
                   post_data, refined_post, image_path, calls, ret, rounds,
                   ui_brand_profile, current_shared, shared>>

\* the caller's "Generate New Post" button
NewPost ==
    /\ pc = "idle"
    /\ selected_post # NoPost
    /\ selected_post' = NoPost
    /\ selected_created' = NoRequest
    /\ stamps' = <<>>
    /\ UNCHANGED <<brand_profile, pc, platform, intent, initial_posts,
                   improved_posts, final_posts, idx, i, current_post, critique,
                   post_data, refined_post, image_path, calls, ret, rounds,
                   ui_brand_profile, current_shared, shared>>

\* refine_post, lines 142-149: refine_with_feedback and the caption test
RefinePost ==
    /\ pc = "idle"
    /\ selected_post # NoPost
    /\ \E user_feedback \in Feedbacks, resp \in RefineResponses :
        LET refined == refine_with_feedback(selected_post, user_feedback,
                                            brand_profile, resp)
        IN  /\ calls' = <<Call("text", "refine", 0)>>
            /\ IF caption_changed(refined, selected_post)
               THEN /\ post_data' = selected_post
                    /\ refined_post' = refined
                    /\ pc' = "ref_background"
                    /\ ret' = Running("refine_post", [post_data |-> selected_post],
                                      resp.k)
                    /\ UNCHANGED <<platform, intent, initial_posts,
                                   improved_posts, final_posts, idx, i,
                                   current_post, critique, image_path,
                                   selected_post, rounds, current_shared,
                                   shared>>
               ELSE /\ ret' = Returned("refine_post", refined,
                                       [post_data |-> selected_post], resp.k)
                    /\ selected_post' = refined
                    /\ ResetLocals
                    /\ UNCHANGED pc
    /\ stamps' = <<>>
    /\ UNCHANGED <<brand_profile, selected_created, ui_brand_profile>>

\* refine_post, lines 151-155
RefineBackground ==
    /\ pc = "ref_background"
    /\ \E img \in ImageOutcomes :
        LET r == generate_background(refined_post, brand_profile,
                                     Get(post_data, "platform", "linkedin"), img)
        IN  IF r.exc # "none"
            THEN /\ ret' = Raised("refine_post", r.exc,
                                  [post_data |-> post_data], ret.resp)
                 /\ pc' = "idle"
                 /\ ResetLocals
                 /\ stamps' = <<>>
                 /\ UNCHANGED calls
            ELSE /\ image_path' = r.val
                 /\ calls' = Append(calls, Call("image", "background", 0))
                 /\ pc' = "ref_overlay"
                 /\ \E timestamp \in Now : stamps' = Written(r.val, timestamp)
                 /\ UNCHANGED <<platform, intent, initial_posts, improved_posts,
                                final_posts, idx, i, current_post, critique,
                                post_data, refined_post, ret, rounds,
                                current_shared, shared>>
    /\ UNCHANGED <<brand_profile, selected_post, selected_created,
                   ui_brand_profile>>

\* refine_post, lines 157-166; the caller stores the returned record
RefineOverlay ==
    /\ pc = "ref_overlay"
    /\ \E render \in ImageOutcomes :
        LET final_image_path == add_text_overlay(image_path,
                                    Get(refined_post, "overlay_text", ""),
                                    brand_profile, render)
            done == Put(refined_post, "image_path", final_image_path)
        IN  /\ ret' = Returned("refine_post", done,
                               [post_data |-> post_data], ret.resp)
            /\ selected_post' = done
            /\ stamps' = <<>>
    /\ calls' = Append(calls, Call("local", "overlay", 0))
    /\ pc' = "idle"
    /\ ResetLocals
    /\ UNCHANGED <<brand_profile, selected_created, ui_brand_profile>>

\* save_post, lines 183-203: the caption file is opened before
\* post_data['caption'] is evaluated, the metadata file after it was written;
\* both names carry the one timestamp of line 183
save_post(post, timestamp) ==
    LET caption_path == [prefix |-> "post_caption", ts |-> timestamp]
        metadata_path == [prefix |-> "post_metadata", ts |-> timestamp]
    IN  IF "caption" \notin DOMAIN post
        THEN [exc |-> "KeyError", files |-> <<caption_path>>]
        ELSE [exc |-> "none", files |-> <<caption_path, metadata_path>>]

\* save_post forgetting the profile once the post is on disk
SavePost_ClearsProfile ==
    /\ pc = "idle"
    /\ selected_post # NoPost
    /\ LET r == save_post(selected_post, 0)
           args == [post_data |-> selected_post]
       IN  /\ stamps' = r.files
           /\ ret' = IF r.exc = "none"
                     THEN Returned("save_post", StrVal, args, "none")
                     ELSE Raised("save_post", r.exc, args, "none")
    /\ calls' = <<>>
    /\ brand_profile' = None
    /\ UNCHANGED <<pc, platform, intent, initial_posts,
                   improved_posts, final_posts, idx, i, current_post, critique,
                   post_data, refined_post, image_path, selected_post,
                   selected_created, rounds, ui_brand_profile, current_shared,
                   shared>>

\* the caller's "Save to Disk" button: save_post on the selected post
SavePost ==
    /\ pc = "idle"
    /\ selected_post # NoPost
    /\ LET r == save_post(selected_post, 0)
           args == [post_data |-> selected_post]
       IN  /\ stamps' = r.files
           /\ ret' = IF r.exc = "none"
                     THEN Returned("save_post", StrVal, args, "none")
                     ELSE Raised("save_post", r.exc, args, "none")
    /\ calls' = <<>>
    /\ UNCHANGED <<brand_profile, pc, platform, intent, initial_posts,
                   improved_posts, final_posts, idx, i, current_post, critique,
                   post_data, refined_post, image_path, selected_post,
                   selected_created, rounds, ui_brand_profile, current_shared,
                   shared>>

Next ==
    \/ InitializeAgent
    \/ AnalyzeBrand
    \/ GeneratePost
    \/ CritiquePost
    \/ ImprovePost
    \/ GenerateBackground
    \/ AddTextOverlay
    \/ SelectPost
    \/ NewPost
    \/ RefinePost
    \/ RefineBackground
    \/ RefineOverlay
    \/ SavePost

Spec == Init /\ [][Next]_vars

(***************************************************************************)
(* Properties                                                              *)
(***************************************************************************)
InGenerate == pc \in {"critique", "improve", "background", "overlay"}
RequestFailed(kind) == kind \in {"error", "unparseable"}
HasMeta(post, p, it) ==
    /\ "platform" \in DOMAIN post
    /\ "intent" \in DOMAIN post
    /\ post["platform"] = p
    /\ post["intent"] = it
NoSources(args) ==
    /\ args.website_url = "None"
    /\ args.existing_posts = <<>>
    /\ args.brand_guidelines = "None"

\* C1: every generate_post and every refine_post made while the brand
\* profile is not set ends at once in the precondition error (ValueError),
\* before any text-model or image-model call is issued.
C1_PreconditionSignalled ==
    (ret.op \in {"generate_post", "refine_post"} /\ brand_profile = None)
        => (ret.status = "raise" /\ ret.exc = "ValueError" /\ calls = <<>>)

\* C2: with a brand profile set, generate_post returns a list whatever the
\* external calls answer; the only error it ever surfaces is the precondition
\* error for a missing brand profile.
C2_OnlyPreconditionErrorSurfaces ==
    (ret.op = "generate_post" /\ ret.status = "raise") => ret.exc = "ValueError"

\* C3: analyze never raises, and whenever the completion request errors or
\* the body is not parseable JSON it returns the fixed default profile, for
\* every combination of present/absent website, posts and guidelines.
C3_AnalyzeFallsBackToDefault ==
    ret.op = "analyze_brand"
        => /\ ret.status = "return"
           /\ RequestFailed(ret.resp)
                => (ret.val = _default_brand_profile
                    /\ brand_profile = _default_brand_profile)

C3_Witness ==
    /\ ret.op = "analyze_brand"
    /\ ret.resp = "unparseable"
    /\ ret.args.website_url # "None"
    /\ ret.args.existing_posts # <<>>
    /\ ret.val = _default_brand_profile

\* C4: every profile analyze returns, hence every value brand_profile holds
\* once set, contains all five nested groups.
C4_ProfileHasAllGroups ==
    brand_profile # None
        => (brand_profile.k = "dict" /\ DOMAIN brand_profile.v = Groups)

\* C5 as stated: called with no website URL, no posts and no guidelines,
\* analyze returns exactly the fixed default profile whatever the text
\* service answers.
C5_NoSourcesGivesDefault ==
    (ret.op = "analyze_brand" /\ NoSources(ret.args))
        => ret.val = _default_brand_profile

\* C5 amended: called with no website URL, no posts and no guidelines,
\* analyze still issues its one completion request with every source marked
\* "Not provided"; it returns the fixed default profile if the request errors
\* or the body is not parseable JSON, and the parsed answer otherwise.
C5_NoSourcesStillAsksModel ==
    (ret.op = "analyze_brand" /\ NoSources(ret.args))
        => /\ calls = <<Call("text", "analyze", 0)>>
           /\ ret.args.prompt = [website |-> "Not provided",
                                 posts |-> "Not provided",
                                 guidelines |-> "Not provided"]
           /\ RequestFailed(ret.resp) => ret.val = _default_brand_profile
           /\ ~RequestFailed(ret.resp)
                => (ret.val.k = ret.resp /\ ret.val \in ModelProfiles)

C5_Witness ==
    /\ ret.op = "analyze_brand"
    /\ NoSources(ret.args)
    /\ ret.resp = "dict"
    /\ ret.val = Dict([g \in Groups |-> "model"])

\* C6: through FeedbackLoop.iterate and the image stage of generate_post,
\* whatever succeeds or fails, each post keeps the platform and intent that
\* generate_variations attached.
C6_MetadataImmutable ==
    /\ InGenerate
        => /\ \A j \in 1..Len(improved_posts) :
                HasMeta(improved_posts[j], platform, intent)
           /\ \A j \in 1..Len(final_posts) :
                HasMeta(final_posts[j], platform, intent)
           /\ pc \in {"critique", "improve"}
                => HasMeta(current_post, platform, intent)
    /\ (ret.op = "generate_post" /\ ret.status = "return")
        => \A j \in 1..Len(ret.val) :
                HasMeta(ret.val[j], ret.args.platform, ret.args.intent)

C6_Witness ==
    /\ ret.op = "generate_post"
    /\ ret.status = "return"
    /\ Len(ret.val) >= 2
    /\ "improvements_made" \in DOMAIN ret.val[1]
    /\ ret.val[1]["image_path"].stage = "final"
    /\ "critique_score" \notin DOMAIN ret.val[2]
    /\ ret.val[2]["image_path"].stage = "placeholder"

\* C7: after any sequence of refine_post calls on a post, successful or not
\* and whatever platform/intent the model answers with, the record's platform
\* and intent are those the post was created with.
C7_RefineKeepsPlatformIntent ==
    /\ selected_post # NoPost
        => HasMeta(selected_post, selected_created.platform,
                   selected_created.intent)
    /\ pc \in {"ref_background", "ref_overlay"}
        => HasMeta(refined_post, selected_created.platform,
                   selected_created.intent)

C7_Witness ==
    /\ ret.op = "refine_post"
    /\ ret.status = "return"
    /\ ret.resp = "dict"
    /\ "changes_made" \in DOMAIN ret.args.post_data
    /\ "caption" \in DOMAIN ret.val
    /\ ret.val["caption"] = "r"
    /\ ret.val["platform"] = selected_created.platform
    /\ "image_path" \in DOMAIN ret.val

\* C8: when the refinement request fails or its answer cannot be parsed or
\* used as a record, refine_with_feedback raises nothing and the record
\* returned equals the post passed in, field for field (image_path,
\* critique_score and variation_number included); nothing else is called.
C8_FailedRefineReturnsInput ==
    (ret.op = "refine_post" /\ ret.resp \in {"error", "unparseable", "list"})
        => /\ ret.status = "return"
           /\ ret.val = ret.args.post_data
           /\ calls = <<Call("text", "refine", 0)>>

C8_Witness ==
    /\ ret.op = "refine_post"
    /\ ret.resp = "error"
    /\ ret.status = "return"
    /\ "image_path" \in DOMAIN ret.val
    /\ "critique_score" \in DOMAIN ret.val
    /\ "variation_number" \in DOMAIN ret.val

\* C9: every successful generate_variations call with requested count k
\* returns exactly k posts, however many entries the answer's "posts" array
\* has, so generate_post returns exactly 3 posts whenever generation succeeds.
C9_VariationCount ==
    /\ InGenerate => Len(initial_posts) = NumVariations
    /\ (ret.op = "generate_post" /\ ret.status = "return" /\ ret.val # <<>>)
        => Len(ret.val) = NumVariations

\* C10: in every list generate_variations returns, the post at 0-based
\* position n carries variation_number n+1, and every post carries the call's
\* platform and intent, whatever such keys the model supplied.
C10_VariationNumbersInOrder ==
    InGenerate
        => \A j \in 1..Len(initial_posts) :
            /\ "variation_number" \in DOMAIN initial_posts[j]
            /\ initial_posts[j]["variation_number"] = j
            /\ HasMeta(initial_posts[j], platform, intent)

C10_Witness ==
    /\ pc = "critique"
    /\ Len(initial_posts) >= 2
    /\ initial_posts[2]["variation_number"] = 2
    /\ initial_posts[2]["platform"] = "instagram"

\* C11: when the generation request errors or its body cannot be parsed or
\* used, generate_variations returns the empty list and raises nothing;
\* generate_post then returns the empty list having issued the generation
\* request only: no critique, improve, image-synthesis or overlay call.
C11_FailedGenerationGivesEmptyList ==
    (ret.op = "generate_post" /\ ret.resp \in {"error", "unparseable", "list"})
        => /\ ret.status = "return"
           /\ ret.val = <<>>
           /\ calls = <<Call("text", "generate", 0)>>
           /\ pc = "idle"

C11_Witness ==
    /\ ret.op = "generate_post"
    /\ ret.status = "return"
    /\ ret.resp = "unparseable"
    /\ ret.val = <<>>
    /\ Truthy(brand_profile)
    /\ calls = <<Call("text", "generate", 0)>>

\* the handle a background step must leave behind for platform p
BackgroundHandle(path, p) ==
    /\ path.stage \in {"bg", "placeholder"}
    /\ path.size = _get_image_dimensions(p)

\* C12: when image synthesis, download or decoding fails, generate_background
\* raises nothing and returns the placeholder of the resolved dimensions; a
\* background step whose prompt could be built always hands a handle to the
\* overlay step, in generate_post and in refine_post, and every post that
\* generate_post returns carries an image_path.
C12_ImageFailureGivesPlaceholder ==
    [][ /\ (pc = "background"
            /\ _build_dalle_prompt(improved_posts[idx + 1], brand_profile,
                                   platform).exc = "none")
            => /\ generate_background(improved_posts[idx + 1], brand_profile,
                                      platform, "fail")
                    = Ok(_create_placeholder_image(
                            _get_image_dimensions(platform), brand_profile))
               /\ pc' = "overlay"
               /\ BackgroundHandle(image_path', platform)
        /\ (pc = "ref_background"
            /\ _build_dalle_prompt(refined_post, brand_profile,
                                   Get(post_data, "platform", "linkedin")).exc = "none")
            => /\ generate_background(refined_post, brand_profile,
                                      Get(post_data, "platform", "linkedin"), "fail")
                    = Ok(_create_placeholder_image(
                            _get_image_dimensions(Get(post_data, "platform", "linkedin")),
                            brand_profile))
               /\ pc' = "ref_overlay"
               /\ BackgroundHandle(image_path', Get(post_data, "platform", "linkedin"))
        /\ (ret'.op = "generate_post" /\ ret'.status = "return")
            => \A j \in 1..Len(ret'.val) :
                /\ "image_path" \in DOMAIN ret'.val[j]
                /\ ret'.val[j]["image_path"].stage \in {"bg", "placeholder", "final"}
                /\ ret'.val[j]["image_path"].size
                        = _get_image_dimensions(ret'.args.platform)
      ]_vars

C12_Witness ==
    /\ pc = "overlay"
    /\ platform = "linkedin"
    /\ image_path = [stage |-> "placeholder", size |-> "1792x1024"]
    /\ calls[Len(calls)] = Call("image", "background", idx + 1)

\* the handles add_text_overlay may answer with when given path
OverlayResults(path) == {path, [stage |-> "final", size |-> path.size]}

\* C13: when overlay rendering fails, add_text_overlay raises nothing and
\* returns exactly the handle it was given, so the record that leaves the
\* overlay step points at the background or at the new overlay file, never
\* at nothing.
C13_OverlayFailureKeepsBackground ==
    [][ /\ pc = "overlay"
            => /\ add_text_overlay(image_path,
                                   Get(improved_posts[idx + 1], "overlay_text", ""),
                                   brand_profile, "fail") = image_path
               /\ LET out == IF pc' = "idle" THEN ret'.val[Len(ret'.val)]
                             ELSE final_posts'[Len(final_posts')]
                  IN  out["image_path"] \in OverlayResults(image_path)
        /\ pc = "ref_overlay"
            => /\ add_text_overlay(image_path,
                                   Get(refined_post, "overlay_text", ""),
                                   brand_profile, "fail") = image_path
               /\ ret'.val["image_path"] \in OverlayResults(image_path)
      ]_vars

C13_Witness ==
    /\ ret.op = "generate_post"
    /\ ret.status = "return"
    /\ ret.val # <<>>
    /\ ret.val[Len(ret.val)]["image_path"].stage = "bg"
    /\ calls[Len(calls)] = Call("local", "overlay", Len(ret.val))

\* both records carry the same caption, or both carry none
SameCaption(a, b) == Get(a, "caption", "None") = Get(b, "caption", "None")

\* C14: when refine_post's refinement yields the caption the input post had
\* (every failed refinement included), the refinement request is the only
\* call made: no background synthesis, no overlay, and the returned record
\* points at no image other than the input's.
C14_SameCaptionNoNewImage ==
    (/\ ret.op = "refine_post"
     /\ ret.status = "return"
     /\ SameCaption(ret.val, ret.args.post_data))
        => /\ calls = <<Call("text", "refine", 0)>>
           /\ "image_path" \in DOMAIN ret.val
                => /\ "image_path" \in DOMAIN ret.args.post_data
                   /\ ret.val["image_path"] = ret.args.post_data["image_path"]

C14_Witness ==
    /\ ret.op = "refine_post"
    /\ ret.status = "return"
    /\ ret.resp = "dict"
    /\ "caption" \in DOMAIN ret.val
    /\ SameCaption(ret.val, ret.args.post_data)
    /\ ret.val # ret.args.post_data
    /\ calls = <<Call("text", "refine", 0)>>

RefineCalls ==
    << Call("text", "refine", 0), Call("image", "background", 0),
       Call("local", "overlay", 0) >>

IterateReturned ==
    /\ Len(rounds) = Iterations
    /\ rounds[Iterations].improve # "pending"
iterate_result == improved_posts[Len(improved_posts)]
iterate_argument == initial_posts[Len(improved_posts)]
ImprovedRounds == {n \in 1..Len(rounds) : rounds[n].improve = "dict"}
LastImprovedRound ==
    CHOOSE n \in ImprovedRounds : \A m \in ImprovedRounds : m <= n

\* C16: iterate with two rounds, round 1's critique and improve succeeding
\* and round 2's improve failing, returns round 1's improved post unchanged:
\* its critique_score is round 1's overall score and its content is round 1's.
C16_FailedSecondRoundIsNoOp ==
    (/\ IterateReturned
     /\ rounds[1].critique = "dict"
     /\ rounds[1].improve = "dict"
     /\ ImproveFailed(rounds[2].improve))
        => /\ "critique_score" \in DOMAIN iterate_result
           /\ iterate_result["critique_score"] = rounds[1].overall_score
           /\ iterate_result = rounds[1].post

C16_Witness ==
    /\ IterateReturned
    /\ rounds[1].critique = "dict"
    /\ rounds[1].improve = "dict"
    /\ rounds[2].critique = "error"
    /\ rounds[2].improve = "error"
    /\ rounds[2].overall_score = "7.0"
    /\ iterate_result["critique_score"] = "8.5"
    /\ "improvements_made" \in DOMAIN iterate_result

\* C17 as stated: after iterate, the returned post's critique_score is the
\* overall score of the last round's critique, whatever succeeded or failed.
C17_ScoreOfLastRound ==
    IterateReturned
        => Get(iterate_result, "critique_score", "None")
                = rounds[Iterations].overall_score

\* C17 amended: after iterate, the returned post's critique_score is the
\* overall score of the critique of the last round whose improve step
\* succeeded; a round whose improve step failed leaves the score of an
\* earlier round in place, and when no improve step succeeded the post is
\* returned as it was passed in, with no score set by the loop.
C17_ScoreOfLastImprovedRound ==
    IterateReturned
        => IF ImprovedRounds = {}
           THEN iterate_result = iterate_argument
           ELSE /\ "critique_score" \in DOMAIN iterate_result
                /\ iterate_result["critique_score"]
                        = rounds[LastImprovedRound].overall_score
                /\ iterate_result = rounds[LastImprovedRound].post

C17_Witness ==
    /\ IterateReturned
    /\ rounds[1].improve = "dict"
    /\ rounds[1].overall_score = "7.0"
    /\ rounds[2].improve = "dict"
    /\ rounds[2].overall_score = "8.5"
    /\ iterate_result["critique_score"] = "8.5"

\* the critique answer of the round in hand was an error, not JSON, or JSON
\* of the wrong shape
CritiqueFailed ==
    /\ rounds # <<>>
    /\ rounds[Len(rounds)].critique \in {"error", "unparseable", "list"}

\* C18: whenever the critique request errors or its answer is malformed or
\* of the wrong shape, the fixed default critique takes its place and the
\* round's improve step runs; iterate does not abort on it.
C18_CritiqueFailureUsesDefault ==
    /\ (pc = "improve" /\ CritiqueFailed)
        => /\ critique = _default_critique
           /\ improvement_prompt(current_post, critique).exc = "none"
    /\ (pc = "improve" /\ critique = _default_critique)
        => /\ critique.v["overall_score"] = "7.0"
           /\ \A d \in Dimensions : critique.v["scores"][d] = 7

\* the fields a post record accumulates before the image stage
PostFields ==
    ContentKeys \cup {"platform", "intent", "variation_number", "critique_score"}

\* C19: a post never loses a field on its way through generate_post: every
\* listed field present before an improve step is present after it, a failed
\* improve step leaves the record as it was, and the image stage only adds
\* image_path.
C19_FieldsNeverLost ==
    [][ /\ (pc = "improve" /\ pc' \in {"critique", "background"})
            => LET out == IF i + 1 < Iterations THEN current_post'
                          ELSE improved_posts'[Len(improved_posts')]
               IN  /\ (DOMAIN current_post \cap PostFields) \subseteq DOMAIN out
                   /\ ImproveFailed(rounds'[Len(rounds')].improve)
                        => out = current_post
        /\ pc = "overlay"
            => LET before == improved_posts[idx + 1]
                   out == IF pc' = "idle" THEN ret'.val[Len(ret'.val)]
                          ELSE final_posts'[Len(final_posts')]
               IN  /\ DOMAIN out = DOMAIN before \cup {"image_path"}
                   /\ \A f \in DOMAIN before : out[f] = before[f]
      ]_vars

\* the posts of list l are, position by position, those derived from the
\* first Len(l) variations of initial_posts
InVariationOrder(l) ==
    /\ Len(l) <= Len(initial_posts)
    /\ \A j \in 1..Len(l) :
        /\ "variation_number" \in DOMAIN l[j]
        /\ l[j]["variation_number"] = initial_posts[j]["variation_number"]
    /\ \A j, k \in 1..Len(l) :
        j < k => l[j]["variation_number"] < l[k]["variation_number"]

\* C20: generate_post keeps the order of the variations: the improved and
\* the final lists grow in the order of the list generate_variations
\* returned, and the list returned has the same length, its i-th post being
\* the one derived from the i-th variation (variation_number increasing).
C20_VariationOrderPreserved ==
    [][ /\ InGenerate
            => /\ InVariationOrder(improved_posts)
               /\ Len(final_posts) <= Len(improved_posts)
               /\ \A j \in 1..Len(final_posts) : final_posts[j] = improved_posts[j]
               /\ pc \in {"background", "overlay"}
                    => Len(improved_posts) = Len(initial_posts)
        /\ (pc = "overlay" /\ pc' = "idle")
            => /\ Len(ret'.val) = Len(initial_posts)
               /\ InVariationOrder(ret'.val)
               /\ \A j \in 1..Len(ret'.val) :
                    \A f \in DOMAIN improved_posts[j] \ {"image_path"} :
                        ret'.val[j][f] = improved_posts[j][f]
      ]_vars

C20_Witness ==
    /\ ret.op = "generate_post"
    /\ ret.status = "return"
    /\ Len(ret.val) = MaxPosts
    /\ \A j \in 1..Len(ret.val) :
        /\ ret.val[j]["variation_number"] = j
        /\ "improvements_made" \in DOMAIN ret.val[j]
        /\ "image_path" \in DOMAIN ret.val[j]

\* C21: every save_post call writes both the caption file and the metadata
\* file, under one timestamp-derived base name, and changes neither the post
\* record nor the brand profile: no call ends with a caption file and no
\* metadata file.
C21_SaveWritesBothFiles ==
    [][ (ret'.op = "save_post" /\ stamps' # <<>>)
            => /\ ret'.status = "return"
               /\ Len(stamps') = 2
               /\ stamps'[1].prefix = "post_caption"
               /\ stamps'[2].prefix = "post_metadata"
               /\ stamps'[1].ts = stamps'[2].ts
               /\ selected_post' = selected_post
               /\ ret'.args.post_data = selected_post
               /\ brand_profile' = brand_profile
      ]_vars

\* the text-service calls made for variation k, in the order made
TextCallsOf(k) ==
    LET ForK(c) == c.api = "text" /\ c.var = k
    IN  SelectSeq(calls, ForK)

\* the calls of one iterate on variation k: critique, improve, round by round
IterateCalls(k) ==
    [n \in 1..(2 * Iterations) |->
        Call("text", IF n % 2 = 1 THEN "critique" ELSE "improve", k)]

\* the variations for which iterate has been entered
Iterated == {c.var : c \in {calls[n] : n \in 1..Len(calls)}} \ {0}

\* C22: iterate is a linear chain without early exit: for every post it is
\* called on it makes exactly Iterations critique calls and Iterations
\* improve calls, alternating, each critique reading the post the previous
\* round produced, whichever calls fail.
C22_IterateRunsAllRounds ==
    /\ \A k \in Iterated :
        /\ Len(TextCallsOf(k)) <= 2 * Iterations
        /\ TextCallsOf(k) = SubSeq(IterateCalls(k), 1, Len(TextCallsOf(k)))
    /\ (pc = "idle" /\ ret.op = "generate_post")
        => \A k \in Iterated : TextCallsOf(k) = IterateCalls(k)
    /\ (pc = "improve" /\ Len(rounds) >= 2)
        => current_post = rounds[Len(rounds) - 1].post

\* C23: when the improve call of a round fails, the post that enters the
\* next round (or that iterate returns) is exactly the post that entered the
\* round, critique_score included, and the remaining rounds still run.
C23_FailedImproveKeepsPost ==
    [][ /\ (/\ pc = "improve"
             /\ pc' # "idle"
             /\ ImproveFailed(rounds'[Len(rounds')].improve))
            => /\ i + 1 < Iterations
                    => (pc' = "critique" /\ i' = i + 1 /\ current_post' = current_post)
               /\ i + 1 = Iterations
                    => improved_posts' = Append(improved_posts, current_post)
        /\ (/\ pc = "critique"
             /\ i = 1
             /\ ImproveFailed(rounds[1].improve))
            => /\ current_post = initial_posts[idx + 1]
               /\ pc' = "improve"
      ]_vars

C23_Witness ==
    /\ pc = "improve"
    /\ i = 1
    /\ rounds[1].critique = "dict"
    /\ rounds[1].improve = "unparseable"
    /\ current_post = initial_posts[idx + 1]
    /\ "critique_score" \notin DOMAIN current_post

\* C24: iterate works on a copy: the records of the list generate_variations
\* returned are the same, field for field, all through generate_post,
\* whatever fails in the feedback loop, and attaching image_path to the
\* improved record does not reach them.
C24_IterateWorksOnCopy ==
    [][ /\ (InGenerate /\ InGenerate') => initial_posts' = initial_posts
        /\ InGenerate
            => \A j \in 1..Len(initial_posts) :
                    "image_path" \notin DOMAIN initial_posts[j]
      ]_vars

C24_Witness ==
    /\ pc = "background"
    /\ idx = 1
    /\ "image_path" \in DOMAIN improved_posts[1]
    /\ "critique_score" \notin DOMAIN improved_posts[1]
    /\ \A f \in DOMAIN initial_posts[1] : improved_posts[1][f] = initial_posts[1][f]
    /\ "image_path" \notin DOMAIN initial_posts[1]

\* C25: in generate_post each variation's critique, improve, image and
\* overlay chain is complete before any call for the next variation: no
\* critique or improve call for variation k+1 is made before the background
\* and the overlay of variation k.
C25_VariationChainCompletesFirst ==
    \A b \in 1..Len(calls) :
        (calls[b].api = "text" /\ calls[b].var >= 2)
            => \E a \in 1..(b - 1) :
                /\ calls[a] = Call("local", "overlay", calls[b].var - 1)
                /\ \E c \in 1..(a - 1) :
                        calls[c] = Call("image", "background", calls[b].var - 1)

\* C26: only analyze_brand changes the agent's brand profile: every step of
\* generate_post, refine_post and save_post, whatever the external calls
\* answer, leaves brand_profile as it was.
C26_OnlyAnalyzeSetsProfile ==
    [][ (\/ pc # "idle"
         \/ pc' # "idle"
         \/ ret'.op \in {"generate_post", "refine_post", "save_post"})
            => brand_profile' = brand_profile
      ]_vars

C26_Witness ==
    /\ ret.op = "save_post"
    /\ ret.status = "return"
    /\ "changes_made" \in DOMAIN selected_post
    /\ Truthy(brand_profile)
    /\ brand_profile = ui_brand_profile

\* C27: image file names are collision-resistant: no background or overlay
\* file written by an operation has the name of a file the same operation
\* wrote before, also when both are written within one clock second.
C27_ImageNamesNeverCollide ==
    \A a, b \in 1..Len(stamps) :
        (/\ a < b
         /\ stamps[a].prefix \in {"bg", "final"}
         /\ stamps[b].prefix \in {"bg", "final"})
            => stamps[a] # stamps[b]

\* C28: the record refine_post returns has an image_path, a variation_number
\* and a critique_score whenever the record it was given had them, for
\* successful and for failed refinements.
C28_RefineKeepsImageAndMetadata ==
    (ret.op = "refine_post" /\ ret.status = "return")
        => \A f \in {"image_path", "variation_number", "critique_score"} :
                f \in DOMAIN ret.args.post_data => f \in DOMAIN ret.val

\* C29: generate_post raises its precondition error only on an agent whose
\* analyze_brand never completed, never because of what the stored profile
\* holds.
C29_PreconditionOnlyWithoutAnalysis ==
    (ret.op = "generate_post" /\ ret.status = "raise" /\ ret.exc = "ValueError")
        => brand_profile.k = "None"

\* C30: whenever the front end's stored brand_profile is set, the current
\* agent's brand_profile is set too, also after the agent was initialized a
\* second time.
C30_UiProfileImpliesAgentProfile ==
    Truthy(ui_brand_profile) => Truthy(brand_profile)

====
